---- MODULE Spec2Model ----
(***************************************************************************)
(* reklog-storage: the two client variants of the repository.               *)
(*                                                                         *)
(*  - the HTTP-backed client (src/example.js, lines 229-414): an API key   *)
(*    is validated by one request started in the constructor, and every    *)
(*    operation awaits that stored validation before its data request;     *)
(*  - the driver-backed client (src/src/index.js): explicit connect and    *)
(*    disconnect around operations that are forwarded to the driver.       *)
(*                                                                         *)
(* JavaScript values: strings are TLA+ strings, undefined/null is the      *)
(* marker Undefined, an error message is the sequence of the pieces it is  *)
(* concatenated from (so that "includes" is membership of a piece).        *)
(***************************************************************************)
EXTENDS Integers, Sequences, FiniteSets, TLC

Undefined == "<undefined>"

\* Number of operation calls made on one HTTP-backed instance.
MaxOps == 2

\* Number of connect and disconnect calls, taken together, made on one
\* driver-backed instance (operation calls are not bounded: only the most
\* recent one is kept).
MaxCalls == 3

VARIABLES
  constructed,        \* "none" | "ok" | "threw": outcome of new RekLogStorage(...)
  ctorError,          \* message of the error the constructor threw
  apiKey,             \* this.apiKey
  validated,          \* this._validated
  storageId,          \* this.storageId
  databaseName,       \* this.databaseName
  validationPromise,  \* this._validationPromise: [state, error]
  validateRequests,   \* bodies of the POST .../storages/validate-key requests sent
  ops,                \* the operation calls made so far, by call order
  givenKey,           \* history: the credential the constructor was called with
  givenEnvironment,   \* history: options.environment the constructor was called with
  validateResponse,   \* history: the outcome the validation request completed with
  unhandledRejection  \* history: _validationPromise was rejected while nothing
                      \* awaited it (the runtime reports an unhandled rejection)

httpVars == <<constructed, ctorError, apiKey, validated, storageId, databaseName,
              validationPromise, validateRequests, ops, givenKey, givenEnvironment,
              validateResponse, unhandledRejection>>

VARIABLES
  client,             \* this.client: NoClient or the index of a driver client
  db,                 \* this.db: NoDb or the index of the client whose db() it is
  clients,            \* the MongoClient objects created so far
  connectCalls,       \* the connect() calls made so far, by call order
  disconnectCalls,    \* the disconnect() calls made so far, by call order
  lastOp,             \* the most recent operation call
  connectedWindow,    \* history: a connect has returned true and no disconnect
                      \* has completed since
  lifecycle           \* history: "fresh" (connect never called), "connectCalled"
                      \* (connect called since the last completed disconnect),
                      \* "disconnected"

driverVars == <<client, db, clients, connectCalls, disconnectCalls, lastOp, connectedWindow, lifecycle>>

VARIABLES
  connectionString,   \* this.connectionString, as the sequence of its characters
  dbName,             \* the value extractDatabaseName(this.connectionString)
                      \* returned, NotExtracted before the call
  givenUri            \* history: the parts the connection string was written from

uriVars == <<connectionString, dbName, givenUri>>

vars == <<httpVars, driverVars, uriVars>>

----------------------------------------------------------------------------
(* JavaScript helpers *)

\* !x for the values a credential can take
Falsy(x) == x \in {"", Undefined}

\* new Error(message), which has no .response
NewError(message) ==
  [message |-> message, hasResponse |-> FALSE, bodyMessage |-> Undefined]

NoError == NewError(<< >>)

\* the error axios rejects with for response r
AxiosError(r) ==
  [message |-> <<r.errmsg>>, hasResponse |-> r.hasResponse, bodyMessage |-> r.message]

\* error.response?.data?.message || error.message
ErrorText(error) ==
  IF error.hasResponse /\ ~Falsy(error.bodyMessage)
    THEN <<error.bodyMessage>>
    ELSE error.message

----------------------------------------------------------------------------
(* The backing store seen through axios.post *)

Credentials == {"", Undefined, "key-A"}

Environments == {Undefined, "production"}

StoreIdentities ==
  { [storageId |-> "st-1", databaseName |-> "my-app-development"],
    [storageId |-> "st-1", databaseName |-> "my-app-production"] }

NoIdentity == [storageId |-> Undefined, databaseName |-> Undefined]

\* The database the store keeps for an environment of the storage "my-app":
\* "<storage name>-<environment>".
EnvironmentDatabase(environment) ==
  CASE environment = "development" -> "my-app-development"
    [] environment = "production" -> "my-app-production"

\* The identity the store resolves a valid key to: the database of the
\* environment the request names, of the default environment when it names none.
StoreIdentity(body) ==
  [storageId |-> "st-1",
   databaseName |-> EnvironmentDatabase(
      IF "environment" \in DOMAIN body /\ body.environment # Undefined
        THEN body.environment ELSE "development")]

\* Outcomes of the validate-key request: a 2xx body, an HTTP error with a
\* body, a transport failure without a response.
ValidateResponses ==
  { [settle |-> "resolve", hasResponse |-> TRUE, success |-> TRUE,
     message |-> Undefined, data |-> id, errmsg |-> Undefined] : id \in StoreIdentities }
  \cup
  { [settle |-> "resolve", hasResponse |-> TRUE, success |-> FALSE,
     message |-> m, data |-> NoIdentity, errmsg |-> Undefined] : m \in {"Key expired", Undefined} }
  \cup
  { [settle |-> "reject", hasResponse |-> TRUE, success |-> FALSE,
     message |-> m, data |-> NoIdentity, errmsg |-> "Request failed with status code 401"]
       : m \in {"Key revoked", Undefined} }
  \cup
  { [settle |-> "reject", hasResponse |-> FALSE, success |-> FALSE,
     message |-> Undefined, data |-> NoIdentity, errmsg |-> "Network Error"] }

\* No outcome yet.
NoResponse ==
  [settle |-> "none", hasResponse |-> FALSE, success |-> FALSE,
   message |-> Undefined, data |-> NoIdentity, errmsg |-> Undefined]

\* The most records one request matches in the store
MaxRecords == 1

\* The numbers of records a request of each kind may find in the store: an
\* update or a delete matches none or some; a read finds, and an insert
\* stores, MaxRecords of them.
StoreCounts(kind) ==
  IF kind \in {"update", "delete"} THEN 0..MaxRecords ELSE {MaxRecords}

\* The data member of the store's success body for a request that found or
\* affected n records.
StoreData(kind, n) ==
  CASE kind \in {"get", "getAll"} -> [documents |-> [j \in 1..n |-> "document"]]
    [] kind = "insert" -> [insertedCount |-> n]
    [] kind = "update" -> [matchedCount |-> n, modifiedCount |-> n]
    [] kind = "delete" -> [deletedCount |-> n]

\* Outcomes of a data request.
DataResponses ==
  { [settle |-> "resolve", hasResponse |-> TRUE, success |-> TRUE,
     message |-> Undefined, errmsg |-> Undefined, count |-> n] : n \in 0..MaxRecords }
  \cup
  { [settle |-> "resolve", hasResponse |-> TRUE, success |-> FALSE,
     message |-> m, errmsg |-> Undefined, count |-> 0] : m \in {"Bad filter", Undefined} }
  \cup
  { [settle |-> "reject", hasResponse |-> TRUE, success |-> FALSE,
     message |-> "Duplicate key", errmsg |-> "Request failed with status code 400",
     count |-> 0] }
  \cup
  { [settle |-> "reject", hasResponse |-> FALSE, success |-> FALSE,
     message |-> Undefined, errmsg |-> "Network Error", count |-> 0] }

\* No data response received yet
NoDataResponse ==
  [settle |-> "none", hasResponse |-> FALSE, success |-> FALSE,
   message |-> Undefined, errmsg |-> Undefined, count |-> 0]

\* No value returned
NoValue == [none |-> TRUE]

----------------------------------------------------------------------------
(* HTTP-backed client: constructor and handshake *)

PendingPromise == [state |-> "pending", error |-> NoError]

NoPromise == [state |-> "none", error |-> NoError]

\* The body of the validate-key request (_validateKey, lines 249-251).
ValidateRequestBody(key, options) == [apiKey |-> key]

\* Faulty variant of Construct: the handshake is started before the
\* credential is checked.
Construct_ValidatesFirst(key, env) ==
  /\ constructed = "none"
  /\ givenKey' = key
  /\ givenEnvironment' = env
  /\ validateRequests' =
       Append(validateRequests, ValidateRequestBody(key, [environment |-> env]))
  /\ validationPromise' = PendingPromise
  /\ IF Falsy(key)
       THEN /\ constructed' = "threw"
            /\ ctorError' = <<"API key is required">>
            /\ UNCHANGED apiKey
       ELSE /\ constructed' = "ok"
            /\ apiKey' = key
            /\ UNCHANGED ctorError
  /\ UNCHANGED <<validated, storageId, databaseName, ops, validateResponse,
                 unhandledRejection,
                 driverVars, uriVars>>

\* new RekLogStorage(key, {environment: env}): throws on a falsy key, else
\* stores the key and calls _validateKey, whose synchronous part sends the
\* validation request; the promise it returns is stored.
Construct(key, env) ==
  /\ constructed = "none"
  /\ givenKey' = key
  /\ givenEnvironment' = env
  /\ IF Falsy(key)
       THEN /\ constructed' = "threw"
            /\ ctorError' = <<"API key is required">>
            /\ UNCHANGED <<apiKey, validationPromise, validateRequests>>
       ELSE /\ constructed' = "ok"
            /\ apiKey' = key
            /\ validateRequests' =
                 Append(validateRequests, ValidateRequestBody(key, [environment |-> env]))
            /\ validationPromise' = PendingPromise
            /\ UNCHANGED ctorError
  /\ UNCHANGED <<validated, storageId, databaseName, ops, validateResponse,
                 unhandledRejection,
                 driverVars, uriVars>>

\* Faulty variant of ValidateKeyResult: databaseName is not recorded on success.
ValidateKeyResult_DropsDatabaseName(r) ==
  IF r.settle = "resolve" /\ r.success
    THEN [ok |-> TRUE, storageId |-> r.data.storageId,
          databaseName |-> Undefined, error |-> NoError]
    ELSE [ok |-> FALSE, storageId |-> Undefined, databaseName |-> Undefined,
          error |-> NewError(<<"API key validation failed: ">>)]

\* What _validateKey does with the outcome r of its request: the fields it
\* assigns and how its promise settles.
ValidateKeyResult(r) ==
  IF r.settle = "resolve"
    THEN IF r.success
           THEN [ok |-> TRUE, storageId |-> r.data.storageId,
                 databaseName |-> r.data.databaseName, error |-> NoError]
           ELSE [ok |-> FALSE, storageId |-> Undefined, databaseName |-> Undefined,
                 error |-> NewError(<<"API key validation failed: ">>
                                      \o ErrorText(NewError(<<"Invalid API key">>)))]
    ELSE [ok |-> FALSE, storageId |-> Undefined, databaseName |-> Undefined,
          error |-> NewError(<<"API key validation failed: ">> \o ErrorText(AxiosError(r)))]

\* An operation suspended in _ensureValidated on `await this._validationPromise`
\* is the only handler the stored promise ever gets.
HasRejectionHandler ==
  \E i \in 1..Len(ops) : ops[i].pc = "gate" /\ ops[i].awaits

\* The validation request completes with r and _validateKey runs to its end.
\* A successful answer names the identity the store resolves the request to.
ValidateSettle(r) ==
  /\ constructed = "ok"
  /\ validationPromise.state = "pending"
  /\ r.success => r.data = StoreIdentity(validateRequests[Len(validateRequests)])
  /\ validateResponse' = r
  /\ unhandledRejection' = (~ValidateKeyResult(r).ok /\ ~HasRejectionHandler)
  /\ LET res == ValidateKeyResult(r) IN
       IF res.ok
         THEN /\ storageId' = res.storageId
              /\ databaseName' = res.databaseName
              /\ validated' = TRUE
              /\ validationPromise' = [state |-> "fulfilled", error |-> NoError]
         ELSE /\ validationPromise' = [state |-> "rejected", error |-> res.error]
              /\ UNCHANGED <<storageId, databaseName, validated>>
  /\ UNCHANGED <<constructed, ctorError, apiKey, validateRequests, ops, givenKey, givenEnvironment,
                 driverVars, uriVars>>

----------------------------------------------------------------------------
(* HTTP-backed client: the gated operations *)

OpKinds == {"get", "getAll", "insert", "delete", "update"}

\* The prefix each operation's catch block puts before the cause.
FailedPrefix(kind) ==
  CASE kind = "get" -> "Get failed: "
    [] kind = "getAll" -> "Get all failed: "
    [] kind = "insert" -> "Insert failed: "
    [] kind = "delete" -> "Delete failed: "
    [] kind = "update" -> "Update failed: "

\* The message an operation throws when the store answers success: false
\* without a message.
GenericFailure(kind) ==
  CASE kind \in {"get", "getAll"} -> "Failed to get documents"
    [] kind = "insert" -> "Failed to insert documents"
    [] kind = "delete" -> "Failed to delete documents"
    [] kind = "update" -> "Failed to update documents"

\* pending / validated / failed, read off this._validated and the promise
ValidationState ==
  IF validated THEN "validated"
  ELSE IF validationPromise.state = "rejected" THEN "failed"
  ELSE IF constructed = "ok" THEN "pending"
  ELSE "none"

\* Faulty variant of EnsureValidatedAwaits: the promise is never awaited.
EnsureValidatedAwaits_Never(isValidated) == FALSE

\* _ensureValidated, line 269: does the caller await the stored promise?
EnsureValidatedAwaits(isValidated) == ~isValidated

\* Faulty variant of EnsureValidatedResult: a rejected handshake is swallowed
\* and the caller goes on.
EnsureValidatedResult_SwallowsRejection(awaits, promise) ==
  IF ~awaits THEN "proceed"
  ELSE IF promise.state \in {"fulfilled", "rejected"} THEN "proceed"
  ELSE "suspended"

\* Faulty variant of EnsureValidatedResult: a caller that started waiting is
\* not released when the handshake succeeds.
EnsureValidatedResult_NeverReleases(awaits, promise) ==
  IF ~awaits THEN "proceed"
  ELSE IF promise.state = "rejected" THEN "throw"
  ELSE "suspended"

\* _ensureValidated seen from the caller that evaluated line 269 to `awaits`:
\* it stays suspended, returns, or throws the promise's rejection.
EnsureValidatedResult(awaits, promise) ==
  IF ~awaits THEN "proceed"
  ELSE IF promise.state = "fulfilled" THEN "proceed"
  ELSE IF promise.state = "rejected" THEN "throw"
  ELSE "suspended"

\* The catch block of an operation: new Error(prefix + cause)
OperationError(kind, cause) ==
  NewError(<<FailedPrefix(kind)>> \o ErrorText(cause))

StoreFailed(o) == o.pc = "threw" /\ o.failedAt = "store"

\* Faulty variant of OpCall: a caller that finds the instance not validated
\* calls _validateKey again instead of awaiting the stored promise.
OpCall_Revalidates(kind) ==
  /\ constructed = "ok"
  /\ Len(ops) < MaxOps
  /\ ops' = Append(ops,
       [kind |-> kind, pc |-> "gate",
        awaits |-> EnsureValidatedAwaits(validated),
        issuedIn |-> ValidationState,
        afterStoreError |-> \E j \in 1..Len(ops) : StoreFailed(ops[j]),
        sent |-> 0, sentIn |-> "none", idAtSend |-> NoIdentity,
        failedAt |-> "none", error |-> NoError,
        response |-> NoDataResponse, value |-> NoValue])
  /\ validateRequests' =
       IF validated THEN validateRequests
       ELSE Append(validateRequests, ValidateRequestBody(apiKey, << >>))
  /\ UNCHANGED <<constructed, ctorError, apiKey, validated, storageId, databaseName,
                 validationPromise, givenKey, givenEnvironment,
                 validateResponse, unhandledRejection,
                 driverVars, uriVars>>

\* A call of get/getAll/insert/delete/update up to its first await: it
\* enters _ensureValidated, which reads this._validated.
OpCall(kind) ==
  /\ constructed = "ok"
  /\ Len(ops) < MaxOps
  /\ ops' = Append(ops,
       [kind |-> kind, pc |-> "gate",
        awaits |-> EnsureValidatedAwaits(validated),
        issuedIn |-> ValidationState,
        afterStoreError |-> \E j \in 1..Len(ops) : StoreFailed(ops[j]),
        sent |-> 0, sentIn |-> "none", idAtSend |-> NoIdentity,
        failedAt |-> "none", error |-> NoError,
        response |-> NoDataResponse, value |-> NoValue])
  /\ UNCHANGED <<constructed, ctorError, apiKey, validated, storageId, databaseName,
                 validationPromise, validateRequests, givenKey, givenEnvironment,
                 validateResponse, unhandledRejection,
                 driverVars, uriVars>>

\* Faulty variant of OpResume: a caller that observes the failed handshake
\* starts it again and waits for the new attempt.
OpResume_Retries(i) ==
  /\ i \in 1..Len(ops)
  /\ ops[i].pc = "gate"
  /\ LET gate == EnsureValidatedResult(ops[i].awaits, validationPromise) IN
       /\ gate # "suspended"
       /\ IF gate = "throw"
            THEN /\ validationPromise' = PendingPromise
                 /\ validateRequests' =
                      Append(validateRequests, ValidateRequestBody(apiKey, << >>))
                 /\ UNCHANGED ops
            ELSE /\ ops' = [ops EXCEPT ![i].pc = "inflight",
                                       ![i].sent = @ + 1,
                                       ![i].sentIn = ValidationState,
                                       ![i].idAtSend = [storageId |-> storageId,
                                                        databaseName |-> databaseName]]
                 /\ UNCHANGED <<validationPromise, validateRequests>>
  /\ UNCHANGED <<constructed, ctorError, apiKey, validated, storageId, databaseName,
                 givenKey, givenEnvironment,
                 validateResponse, unhandledRejection,
                 driverVars, uriVars>>

\* The operation resumes after `await this._ensureValidated()`: it either
\* throws the validation error into its catch block or sends its data request.
OpResume(i) ==
  /\ i \in 1..Len(ops)
  /\ ops[i].pc = "gate"
  /\ LET gate == EnsureValidatedResult(ops[i].awaits, validationPromise) IN
       /\ gate # "suspended"
       /\ IF gate = "throw"
            THEN ops' = [ops EXCEPT ![i].pc = "threw",
                                    ![i].failedAt = "validation",
                                    ![i].error = OperationError(ops[i].kind,
                                                                validationPromise.error)]
            ELSE ops' = [ops EXCEPT ![i].pc = "inflight",
                                    ![i].sent = @ + 1,
                                    ![i].sentIn = ValidationState,
                                    ![i].idAtSend = [storageId |-> storageId,
                                                     databaseName |-> databaseName]]
  /\ UNCHANGED <<constructed, ctorError, apiKey, validated, storageId, databaseName,
                 validationPromise, validateRequests, givenKey, givenEnvironment,
                 validateResponse, unhandledRejection,
                 driverVars, uriVars>>

\* What an operation returns from the data member of a success body:
\* get and getAll (lines 291, 318) return data.documents; insert, delete and
\* update (lines 345, 372, 401) return data itself.
ReturnValue(kind, data) ==
  IF kind \in {"get", "getAll"} THEN data.documents ELSE data

\* Faulty variant of OperationResult: a success body whose counts are zero is
\* taken for a failure.
OperationResult_ZeroIsFailure(kind, r) ==
  IF r.settle = "resolve"
    THEN IF r.success /\ r.count # 0
           THEN [pc |-> "returned", error |-> NoError,
                 value |-> ReturnValue(kind, StoreData(kind, r.count))]
           ELSE [pc |-> "threw",
                 error |-> OperationError(kind,
                             NewError(<<IF Falsy(r.message) THEN GenericFailure(kind)
                                                            ELSE r.message>>)),
                 value |-> NoValue]
    ELSE [pc |-> "threw", error |-> OperationError(kind, AxiosError(r)),
          value |-> NoValue]

\* One data request's outcome as the operation reports it: the value on
\* success: true; otherwise the store's message under the operation's prefix.
OperationResult(kind, r) ==
  IF r.settle = "resolve"
    THEN IF r.success
           THEN [pc |-> "returned", error |-> NoError,
                 value |-> ReturnValue(kind, StoreData(kind, r.count))]
           ELSE [pc |-> "threw",
                 error |-> OperationError(kind,
                             NewError(<<IF Falsy(r.message) THEN GenericFailure(kind)
                                                            ELSE r.message>>)),
                 value |-> NoValue]
    ELSE [pc |-> "threw", error |-> OperationError(kind, AxiosError(r)),
          value |-> NoValue]

\* Faulty variant of OpSettle: a failed data request is recorded on the
\* instance as a failed validation.
OpSettle_Poisons(i, r) ==
  /\ i \in 1..Len(ops)
  /\ ops[i].pc = "inflight"
  /\ r.success => r.count \in StoreCounts(ops[i].kind)
  /\ LET res == OperationResult(ops[i].kind, r) IN
       /\ ops' = [ops EXCEPT ![i].pc = res.pc,
                             ![i].failedAt = IF res.pc = "threw" THEN "store" ELSE "none",
                             ![i].error = res.error,
                             ![i].response = r, ![i].value = res.value]
       /\ IF res.pc = "threw"
            THEN /\ validated' = FALSE
                 /\ validationPromise' = [state |-> "rejected", error |-> res.error]
            ELSE UNCHANGED <<validated, validationPromise>>
  /\ UNCHANGED <<constructed, ctorError, apiKey, storageId, databaseName,
                 validateRequests, givenKey, givenEnvironment,
                 validateResponse, unhandledRejection,
                 driverVars, uriVars>>

\* Faulty variant of OpSettle: a failed data request is sent again.
OpSettle_Resends(i, r) ==
  /\ i \in 1..Len(ops)
  /\ ops[i].pc = "inflight"
  /\ r.success => r.count \in StoreCounts(ops[i].kind)
  /\ LET res == OperationResult(ops[i].kind, r) IN
       ops' = IF res.pc = "threw"
                THEN [ops EXCEPT ![i].sent = @ + 1]
                ELSE [ops EXCEPT ![i].pc = res.pc, ![i].error = res.error,
                                 ![i].response = r, ![i].value = res.value]
  /\ UNCHANGED <<constructed, ctorError, apiKey, validated, storageId, databaseName,
                 validationPromise, validateRequests, givenKey, givenEnvironment,
                 validateResponse, unhandledRejection, driverVars, uriVars>>

\* The data request of operation i completes with r.
OpSettle(i, r) ==
  /\ i \in 1..Len(ops)
  /\ ops[i].pc = "inflight"
  /\ r.success => r.count \in StoreCounts(ops[i].kind)
  /\ LET res == OperationResult(ops[i].kind, r) IN
       ops' = [ops EXCEPT ![i].pc = res.pc,
                          ![i].failedAt = IF res.pc = "threw" THEN "store" ELSE "none",
                          ![i].error = res.error,
                          ![i].response = r, ![i].value = res.value]
  /\ UNCHANGED <<constructed, ctorError, apiKey, validated, storageId, databaseName,
                 validationPromise, validateRequests, givenKey, givenEnvironment,
                 validateResponse, unhandledRejection,
                 driverVars, uriVars>>

----------------------------------------------------------------------------
(* Driver-backed client: connect and disconnect *)

NoClient == 0

NoDb == 0

DriverReasons == {"ECONNREFUSED"}

NoConnectError == << >>

\* Faulty variant of ConnectCall: this.db is taken from the new client before
\* its connect() is awaited.
ConnectCall_SetsDbEarly(ctorOk, reason) ==
  /\ Len(connectCalls) + Len(disconnectCalls) < MaxCalls
  /\ lifecycle' = "connectCalled"
  /\ IF ctorOk
       THEN /\ clients' = Append(clients, [connect |-> "pending",
                                           closeRequested |-> FALSE, closed |-> FALSE])
            /\ client' = Len(clients) + 1
            /\ db' = Len(clients) + 1
            /\ connectCalls' = Append(connectCalls,
                 [pc |-> "await", client |-> Len(clients) + 1, error |-> NoConnectError])
       ELSE /\ connectCalls' = Append(connectCalls,
                 [pc |-> "threw", client |-> NoClient,
                  error |-> <<"Failed to connect to MongoDB: ", reason>>])
            /\ UNCHANGED <<client, clients, db>>
  /\ UNCHANGED <<disconnectCalls, lastOp, connectedWindow,
                 httpVars, uriVars>>

\* A connect() call up to its await: a MongoClient is created and stored in
\* this.client and its connect() is called. If the MongoClient constructor
\* throws (ctorOk = FALSE), nothing is stored and the catch block rethrows.
ConnectCall(ctorOk, reason) ==
  /\ Len(connectCalls) + Len(disconnectCalls) < MaxCalls
  /\ lifecycle' = "connectCalled"
  /\ IF ctorOk
       THEN /\ clients' = Append(clients, [connect |-> "pending",
                                           closeRequested |-> FALSE, closed |-> FALSE])
            /\ client' = Len(clients) + 1
            /\ connectCalls' = Append(connectCalls,
                 [pc |-> "await", client |-> Len(clients) + 1, error |-> NoConnectError])
       ELSE /\ connectCalls' = Append(connectCalls,
                 [pc |-> "threw", client |-> NoClient,
                  error |-> <<"Failed to connect to MongoDB: ", reason>>])
            /\ UNCHANGED <<client, clients>>
  /\ UNCHANGED <<db, disconnectCalls, lastOp, connectedWindow,
                 httpVars, uriVars>>

\* The awaited client.connect() of call k settles. On success the call goes
\* on to `this.db = this.client.db(dbName)` with the client the instance holds
\* now, which throws a TypeError when this.client is null; every error is
\* rethrown by the catch block.
ConnectSettle(k, ok, reason) ==
  /\ k \in 1..Len(connectCalls)
  /\ connectCalls[k].pc = "await"
  /\ clients' = [clients EXCEPT ![connectCalls[k].client].connect =
                                    IF ok THEN "ok" ELSE "failed"]
  /\ IF ~ok
       THEN /\ connectCalls' = [connectCalls EXCEPT ![k].pc = "threw",
                 ![k].error = <<"Failed to connect to MongoDB: ", reason>>]
            /\ UNCHANGED <<db, connectedWindow>>
       ELSE IF client = NoClient
         THEN /\ connectCalls' = [connectCalls EXCEPT ![k].pc = "threw",
                   ![k].error = <<"Failed to connect to MongoDB: ",
                                  "Cannot read properties of null">>]
              /\ UNCHANGED <<db, connectedWindow>>
         ELSE /\ db' = client
              /\ connectCalls' = [connectCalls EXCEPT ![k].pc = "returned"]
              /\ connectedWindow' = TRUE
  /\ UNCHANGED <<client, disconnectCalls, lastOp, lifecycle,
                 httpVars, uriVars>>

\* Faulty variant of HasClient: close() is called without looking at this.client.
HasClient_Unchecked(c) == TRUE

\* disconnect, line 49: if (this.client)
HasClient(c) == c # NoClient

\* A disconnect() call up to its await: with a client it calls client.close()
\* and waits; without one it completes at once.
DisconnectCall ==
  /\ Len(connectCalls) + Len(disconnectCalls) < MaxCalls
  /\ IF HasClient(client)
       THEN IF client = NoClient
         THEN /\ disconnectCalls' = Append(disconnectCalls,
                   [pc |-> "threw", target |-> NoClient, driverCalls |-> 0,
                    calledIn |-> lifecycle])
              /\ UNCHANGED <<clients, lifecycle, connectedWindow>>
         ELSE /\ disconnectCalls' = Append(disconnectCalls,
                   [pc |-> "await", target |-> client, driverCalls |-> 1,
                    calledIn |-> lifecycle])
              /\ clients' = [clients EXCEPT ![client].closeRequested = TRUE]
              /\ UNCHANGED <<lifecycle, connectedWindow>>
       ELSE /\ disconnectCalls' = Append(disconnectCalls,
                 [pc |-> "done", target |-> NoClient, driverCalls |-> 0,
                  calledIn |-> lifecycle])
            /\ lifecycle' = "disconnected"
            /\ connectedWindow' = FALSE
            /\ UNCHANGED clients
  /\ UNCHANGED <<client, db, connectCalls, lastOp,
                 httpVars, uriVars>>

\* Faulty variant of DisconnectSettle: this.db is not reset.
DisconnectSettle_KeepsDb(d) ==
  /\ d \in 1..Len(disconnectCalls)
  /\ disconnectCalls[d].pc = "await"
  /\ clients' = [clients EXCEPT ![disconnectCalls[d].target].closed = TRUE]
  /\ client' = NoClient
  /\ disconnectCalls' = [disconnectCalls EXCEPT ![d].pc = "done"]
  /\ lifecycle' = "disconnected"
  /\ connectedWindow' = FALSE
  /\ UNCHANGED <<db, connectCalls, lastOp,
                 httpVars, uriVars>>

\* The awaited client.close() of disconnect call d resolves: this.client and
\* this.db are set to null.
DisconnectSettle(d) ==
  /\ d \in 1..Len(disconnectCalls)
  /\ disconnectCalls[d].pc = "await"
  /\ clients' = [clients EXCEPT ![disconnectCalls[d].target].closed = TRUE]
  /\ client' = NoClient
  /\ db' = NoDb
  /\ disconnectCalls' = [disconnectCalls EXCEPT ![d].pc = "done"]
  /\ lifecycle' = "disconnected"
  /\ connectedWindow' = FALSE
  /\ UNCHANGED <<connectCalls, lastOp,
                 httpVars, uriVars>>

----------------------------------------------------------------------------
(* Driver-backed client: operations *)

\* The operations that start with this.getCollection(collectionName)
CollectionOps ==
  {"insert", "insertMany", "find", "findOne", "update", "updateOne", "delete",
   "deleteOne", "count", "aggregate", "createIndex", "dropCollection"}

\* The operations that test this.db themselves
DatabaseOps == {"listCollections", "stats"}

DriverOpKinds == CollectionOps \cup DatabaseOps

NotConnectedMessage == <<"Not connected to MongoDB. Call connect() first.">>

\* The operations whose driver result carries counts of matched records
UpdateOps == {"update", "updateOne"}
DeleteOps == {"delete", "deleteOne"}

\* The numbers of records the driver may report for an operation: an update
\* or a delete matches none or some.
DriverCounts(kind) ==
  IF kind \in UpdateOps \cup DeleteOps THEN 0..MaxRecords ELSE {MaxRecords}

\* No driver result received yet
NoCount == << >>

\* The driver's result object for an operation that matched n records
\* (UpdateResult of updateMany/updateOne, DeleteResult of deleteMany/deleteOne;
\* the results of the other operations are kept opaque).
DriverResult(kind, n) ==
  CASE kind \in UpdateOps -> [acknowledged |-> TRUE, matchedCount |-> n,
                              modifiedCount |-> n, upsertedCount |-> 0]
    [] kind \in DeleteOps -> [acknowledged |-> TRUE, deletedCount |-> n]
    [] OTHER -> [opaque |-> kind]

\* What an operation returns from the driver's result: update and updateOne
\* (lines 157-160, 174-177) the two counts, delete and deleteOne (lines 200,
\* 212) the number deletedCount; the reshaping done by the other operations
\* is not followed.
DriverReturn(kind, result) ==
  CASE kind \in UpdateOps -> [matchedCount |-> result.matchedCount,
                              modifiedCount |-> result.modifiedCount]
    [] kind \in DeleteOps -> result.deletedCount
    [] OTHER -> result

NoOp ==
  [kind |-> "none", outcome |-> "none", error |-> << >>, driverCalls |-> 0,
   onClient |-> NoClient, inWindow |-> FALSE, calledIn |-> "fresh",
   holdingClient |-> FALSE, closing |-> FALSE, duringDisconnect |-> FALSE,
   afterConnectFailure |-> FALSE,
   matched |-> NoCount, value |-> NoValue]

\* A connect call has rejected because the driver threw or rejected.
DriverRejected(k) ==
  /\ connectCalls[k].pc = "threw"
  /\ \/ connectCalls[k].client = NoClient
     \/ clients[connectCalls[k].client].connect = "failed"

ConnectFailed == \E k \in 1..Len(connectCalls) : DriverRejected(k)

\* A disconnect call is at its `await this.client.close()` (line 50).
Disconnecting ==
  \E d \in 1..Len(disconnectCalls) : disconnectCalls[d].pc = "await"

\* Faulty variant of NotConnected: the test looks at this.client.
NotConnected_TestsClient(dbNow, clientNow) == clientNow = NoClient

\* getCollection line 60, listCollections line 274, stats line 286: if (!this.db)
NotConnected(dbNow, clientNow) == dbNow = NoDb

\* An operation call up to its first await: the not-connected test, then the
\* call on this.db (collection(name) and the collection method, or the
\* database method) that the operation awaits.
DriverOp(kind) ==
  /\ lastOp' =
       IF NotConnected(db, client)
         THEN [kind |-> kind, outcome |-> "threw", error |-> NotConnectedMessage,
               driverCalls |-> 0, onClient |-> NoClient,
               inWindow |-> connectedWindow, calledIn |-> lifecycle,
               holdingClient |-> client # NoClient, closing |-> FALSE,
               duringDisconnect |-> Disconnecting,
               afterConnectFailure |-> ConnectFailed,
               matched |-> NoCount, value |-> NoValue]
       ELSE IF db = NoDb
         THEN [kind |-> kind, outcome |-> "threw",
               error |-> <<"Cannot read properties of null">>,
               driverCalls |-> 0, onClient |-> NoClient,
               inWindow |-> connectedWindow, calledIn |-> lifecycle,
               holdingClient |-> client # NoClient, closing |-> FALSE,
               duringDisconnect |-> Disconnecting,
               afterConnectFailure |-> ConnectFailed,
               matched |-> NoCount, value |-> NoValue]
         ELSE [kind |-> kind, outcome |-> "dispatched", error |-> << >>,
               driverCalls |-> IF kind \in CollectionOps THEN 2 ELSE 1,
               onClient |-> db, inWindow |-> connectedWindow,
               calledIn |-> lifecycle, holdingClient |-> client # NoClient,
               closing |-> clients[db].closeRequested,
               duringDisconnect |-> Disconnecting,
               afterConnectFailure |-> ConnectFailed,
               matched |-> NoCount, value |-> NoValue]
  /\ UNCHANGED <<client, db, clients, connectCalls, disconnectCalls,
                 connectedWindow, lifecycle,
                 httpVars, uriVars>>

\* The driver call the most recent operation awaits settles; the operation
\* returns the reshaped result or rejects with the driver's error.
DriverOpSettle(ok, reason, n) ==
  /\ lastOp.outcome = "dispatched"
  /\ n \in DriverCounts(lastOp.kind)
  /\ lastOp' = IF ok THEN [lastOp EXCEPT !.outcome = "returned", !.matched = <<n>>,
                                         !.value = DriverReturn(lastOp.kind,
                                                     DriverResult(lastOp.kind, n))]
                     ELSE [lastOp EXCEPT !.outcome = "threw", !.error = <<reason>>]
  /\ UNCHANGED <<client, db, clients, connectCalls, disconnectCalls,
                 connectedWindow, lifecycle,
                 httpVars, uriVars>>

----------------------------------------------------------------------------
(* Driver-backed client: the database name taken from the connection string *)

\* Longest database name written into a connection string
MaxName == 2

\* The parts of mongodb://[username:password@]host[:port]/database[?options]
\* (README, Connection String Format), each the sequence of its characters.
Scheme == <<"m", "o", "n", "g", "o", "d", "b", ":", "/", "/">>

CredentialParts == { << >>, <<"u", ":", "p", "@">> }

Hosts == { <<"h">> }

Ports == { << >>, <<":", "2", "7">> }

NameChars == {"d", "b"}

DatabaseNames == UNION { [1..n -> NameChars] : n \in 1..MaxName }

\* No path, a bare "/", or "/" followed by a database name
PathParts ==
  { [slash |-> FALSE, database |-> << >>], [slash |-> TRUE, database |-> << >>] }
  \cup { [slash |-> TRUE, database |-> d] : d \in DatabaseNames }

\* No options, ?w=1, or an option whose value is a file path (?f=/c)
OptionParts == { << >>, <<"?", "w", "=", "1">>, <<"?", "f", "=", "/", "c">> }

UriParts ==
  [credentials : CredentialParts, host : Hosts, port : Ports,
   path : PathParts, options : OptionParts]

ConnectionString(p) ==
  Scheme \o p.credentials \o p.host \o p.port
         \o (IF p.path.slash THEN <<"/">> ELSE << >>) \o p.path.database
         \o p.options

\* The connection string of the instances whose database name is not looked at
PlainUri ==
  [credentials |-> << >>, host |-> <<"h">>, port |-> << >>,
   path |-> [slash |-> TRUE, database |-> <<"d">>], options |-> << >>]

DefaultDatabase == <<"t", "e", "s", "t">>

NotExtracted == [called |-> FALSE, value |-> << >>]

\* The characters the class [^/?] excludes
Excluded == {"/", "?"}

\* The last position of the longest run of [^/?] characters that starts at
\* position i of s (i - 1 when the run is empty): what the greedy [^/?]+
\* consumes.
RunEnd(s, i) ==
  LET ends == { j \in (i - 1)..Len(s) : \A k \in i..j : s[k] \notin Excluded }
  IN CHOOSE j \in ends : \A e \in ends : e <= j

\* /\/([^/?]+)(\?|$)/ matches with its "/" at position i: a non-empty run of
\* [^/?] follows, and after it comes "?" or the end of the string. A shorter
\* run is followed by a [^/?] character, so backtracking finds nothing more.
MatchesAt(s, i) ==
  /\ s[i] = "/"
  /\ LET j == RunEnd(s, i + 1) IN
       /\ j >= i + 1
       /\ (j = Len(s) \/ s[j + 1] = "?")

\* extractDatabaseName (lines 40-43): String.prototype.match returns the
\* leftmost match, and match[1] is the run; 'test' when nothing matches.
extractDatabaseName(s) ==
  LET starts == { i \in 1..Len(s) : MatchesAt(s, i) } IN
    IF starts = {}
      THEN DefaultDatabase
      ELSE LET i == CHOOSE m \in starts : \A o \in starts : m <= o
           IN SubSeq(s, i + 1, RunEnd(s, i + 1))

\* connect line 28: const dbName = this.extractDatabaseName(this.connectionString)
ExtractCall ==
  /\ ~dbName.called
  /\ dbName' = [called |-> TRUE, value |-> extractDatabaseName(connectionString)]
  /\ UNCHANGED <<connectionString, givenUri, httpVars, driverVars>>

\* new RekLogStorage(connectionString) with a connection string written from
\* the parts p
UriGiven(p) ==
  /\ connectionString = ConnectionString(p)
  /\ givenUri = p
  /\ dbName = NotExtracted

----------------------------------------------------------------------------
(* Specification of the HTTP-backed client *)

DriverInit ==
  /\ client = NoClient
  /\ db = NoDb
  /\ clients = << >>
  /\ connectCalls = << >>
  /\ disconnectCalls = << >>
  /\ lastOp = NoOp
  /\ connectedWindow = FALSE
  /\ lifecycle = "fresh"

HttpInit ==
  /\ constructed = "none"
  /\ ctorError = << >>
  /\ apiKey = Undefined
  /\ validated = FALSE
  /\ storageId = Undefined
  /\ databaseName = Undefined
  /\ validationPromise = NoPromise
  /\ validateRequests = << >>
  /\ ops = << >>
  /\ givenKey = Undefined
  /\ givenEnvironment = Undefined
  /\ validateResponse = NoResponse
  /\ unhandledRejection = FALSE

Init == HttpInit /\ DriverInit /\ UriGiven(PlainUri)

\* An instance constructed with any connection string of the documented form
UriInit == HttpInit /\ DriverInit /\ \E p \in UriParts : UriGiven(p)

UriNext == ExtractCall

UriSpec == UriInit /\ [][UriNext]_vars

HttpNext ==
  \/ \E key \in Credentials, env \in Environments : Construct(key, env)
  \/ \E r \in ValidateResponses : ValidateSettle(r)
  \/ \E kind \in OpKinds : OpCall(kind)
  \/ \E i \in 1..MaxOps : OpResume(i)
  \/ \E i \in 1..MaxOps, r \in DataResponses : OpSettle(i, r)

HttpSpec == Init /\ [][HttpNext]_vars

----------------------------------------------------------------------------
(* Specification of the driver-backed client *)

DriverNext ==
  \/ \E ctorOk \in BOOLEAN, reason \in DriverReasons : ConnectCall(ctorOk, reason)
  \/ \E k \in 1..MaxCalls, ok \in BOOLEAN, reason \in DriverReasons :
       ConnectSettle(k, ok, reason)
  \/ DisconnectCall
  \/ \E d \in 1..MaxCalls : DisconnectSettle(d)
  \/ \E kind \in DriverOpKinds : DriverOp(kind)
  \/ \E ok \in BOOLEAN, reason \in DriverReasons, n \in 0..MaxRecords :
       DriverOpSettle(ok, reason, n)

DriverSpec == Init /\ [][DriverNext]_vars

\* A program holding an instance of one of the two clients: the instances
\* share no state, so the other variant's instance stays as constructed.
EitherNext ==
  \/ DriverInit /\ HttpNext
  \/ HttpInit /\ DriverNext

EitherSpec == Init /\ [][EitherNext]_vars

\* The continuation of an await on a settled promise is always run by the
\* event loop: an operation past its gate is resumed.
FairHttpSpec == HttpSpec /\ \A i \in 1..MaxOps : WF_vars(OpResume(i))

----------------------------------------------------------------------------
(* Properties of the HTTP-backed client *)

Pieces(error) == { error.message[k] : k \in 1..Len(error.message) }

Issued == 1..Len(ops)

\* C1: no data request is sent to the backing store while the handshake is
\* pending; every data request was sent after the handshake had resolved
\* successfully.
C1_NoDataRequestWhilePending ==
  /\ ValidationState = "pending" => \A i \in Issued : ops[i].sent = 0
  /\ \A i \in Issued :
       ops[i].sent > 0 => /\ ops[i].sentIn = "validated"
                          /\ validationPromise.state = "fulfilled"

\* An operation issued while the handshake was pending has sent its request.
C1_Witness ==
  \E i \in Issued : ops[i].issuedIn = "pending" /\ ops[i].sent = 1

\* C2: the validation request is sent exactly once per constructed instance,
\* whatever operations are issued before or after the handshake resolves.
C2_ValidationSentOnce ==
  /\ constructed = "ok" => Len(validateRequests) = 1
  /\ constructed # "ok" => Len(validateRequests) = 0

\* One operation was issued before the handshake resolved and one after, and
\* both are past the gate.
C2_Witness ==
  /\ Len(ops) = 2
  /\ ops[1].issuedIn = "pending"
  /\ ops[2].issuedIn \in {"validated", "failed"}
  /\ \A i \in Issued : ops[i].pc # "gate"

\* C3: once the handshake has failed, no data request is ever sent and every
\* operation that has come back failed with an error whose message includes
\* 'API key validation failed'.
C3_FailedHandshakeFailsEveryOperation ==
  ValidationState = "failed" =>
    \A i \in Issued :
      /\ ops[i].sent = 0
      /\ ops[i].pc \in {"gate", "threw"}
      /\ ops[i].pc = "threw" =>
           /\ ops[i].failedAt = "validation"
           /\ "API key validation failed: " \in Pieces(ops[i].error)

\* The handshake failed; an operation issued before and one issued after the
\* failure have both thrown.
C3_Witness ==
  /\ ValidationState = "failed"
  /\ \E i \in Issued : ops[i].issuedIn = "pending" /\ ops[i].pc = "threw"
  /\ \E i \in Issued : ops[i].issuedIn = "failed" /\ ops[i].pc = "threw"

\* C4: an operation issued while the handshake was pending sends its data
\* request once the handshake has validated: eventually, never more than
\* once, and with storageId and databaseName set when it is sent.
C4_QueuedOperationsReachStoreOnce ==
  /\ [](\A i \in Issued :
          /\ ops[i].sent <= 1
          /\ ops[i].sent = 1 => /\ ops[i].idAtSend.storageId # Undefined
                                /\ ops[i].idAtSend.databaseName # Undefined)
  /\ validated ~> (\A i \in Issued : ops[i].issuedIn = "pending" => ops[i].sent = 1)

\* Two operations queued behind the pending handshake have both sent their
\* request after it validated.
C4_Witness ==
  /\ Len(ops) = 2
  /\ \A i \in Issued : ops[i].issuedIn = "pending" /\ ops[i].sent = 1
  /\ \A i \in Issued : ops[i].idAtSend \in StoreIdentities

\* The reason the transport or the backing store gave for a failed handshake:
\* the message of the response body when there is one, else the transport's
\* own message; Undefined when none was given.
GivenReason(r) ==
  IF r.message \notin {"", Undefined} THEN r.message
  ELSE IF r.settle = "reject" THEN r.errmsg
  ELSE Undefined

\* C5: an operation that observes the failed handshake fails with an error
\* that carries the reason the transport or the backing store gave.
C5_FailureReasonPreserved ==
  \A i \in Issued :
    (ops[i].pc = "threw" /\ ops[i].failedAt = "validation"
       /\ GivenReason(validateResponse) # Undefined)
      => GivenReason(validateResponse) \in Pieces(ops[i].error)

\* C6: a construction with an empty or missing credential throws
\* 'API key is required'; no handshake is started and no request is sent.
C6_EmptyCredentialThrowsBeforeAnyRequest ==
  (constructed # "none" /\ givenKey \in {"", Undefined}) =>
     /\ constructed = "threw"
     /\ ctorError = <<"API key is required">>
     /\ validationPromise.state = "none"
     /\ validateRequests = << >>
     /\ ops = << >>

\* The constructor was called with the empty string.
C6_Witness == constructed = "threw" /\ givenKey = ""

\* C7: the validation state starts pending and only moves forward: validated
\* stays validated and failed stays failed.
C7_ValidationStateOnlyMovesForward ==
  [][ /\ ValidationState = "none" => ValidationState' \in {"none", "pending"}
      /\ ValidationState = "pending" =>
           ValidationState' \in {"pending", "validated", "failed"}
      /\ ValidationState = "validated" => ValidationState' = "validated"
      /\ ValidationState = "failed" => ValidationState' = "failed" ]_vars

\* The handshake failed and operations issued afterwards have come back.
C7_Witness ==
  /\ ValidationState = "failed"
  /\ Len(ops) = MaxOps
  /\ \A i \in Issued : ops[i].issuedIn = "failed" /\ ops[i].pc = "threw"

\* C8: a data request that fails changes neither the validation state nor
\* the resolved identity, and an operation issued after such a failure still
\* sends its request to the backing store.
C8_StoreFailureIsLocal ==
  /\ [][ (\E i \in Issued : ops[i].pc = "inflight" /\ StoreFailed(ops'[i]))
           => UNCHANGED <<validated, storageId, databaseName, validationPromise>> ]_vars
  /\ [](\A i \in Issued :
          (ops[i].afterStoreError /\ ops[i].pc # "gate")
            => /\ ops[i].sent = 1
               /\ ops[i].failedAt # "validation"
               /\ ValidationState = "validated")

\* An operation failed on the store, and an operation issued after that
\* failure returned successfully.
C8_Witness ==
  \E i, j \in Issued :
    /\ StoreFailed(ops[i])
    /\ ops[j].afterStoreError
    /\ ops[j].pc = "returned"

\* C11: the validation request carries the credential and the environment
\* chosen at construction, "development" when the caller chose none.
C11_HandshakeCarriesEnvironment ==
  \A k \in 1..Len(validateRequests) :
    /\ validateRequests[k].apiKey = givenKey
    /\ "environment" \in DOMAIN validateRequests[k]
    /\ validateRequests[k].environment =
         (IF givenEnvironment = Undefined THEN "development" ELSE givenEnvironment)

\* C12: a client constructed with environment E whose handshake validated
\* has the databaseName of environment E ("<store>-production" for
\* E = "production", "<store>-development" when none was chosen).
C12_DatabaseNameFollowsEnvironment ==
  ValidationState = "validated" =>
    databaseName = EnvironmentDatabase(
      IF givenEnvironment = Undefined THEN "development" ELSE givenEnvironment)

\* C13: storageId and databaseName are unset while validation is pending or
\* failed, set once it is validated, and never change once set.
C13_IdentityWriteOnce ==
  /\ [](ValidationState \in {"none", "pending", "failed"} =>
          storageId = Undefined /\ databaseName = Undefined)
  /\ [](ValidationState = "validated" =>
          storageId # Undefined /\ databaseName # Undefined)
  /\ [][ /\ storageId # Undefined => storageId' = storageId
         /\ databaseName # Undefined => databaseName' = databaseName ]_vars

\* The instance validated, and operations have since succeeded and failed on
\* the store.
C13_Witness ==
  /\ ValidationState = "validated"
  /\ storageId = "st-1"
  /\ \E i \in Issued : ops[i].pc = "returned"
  /\ \E i \in Issued : StoreFailed(ops[i])

\* C17: an operation call sends at most one data request, exactly one when it
\* reached the store, and a call that has returned or failed does nothing more.
C17_NoAutomaticRetry ==
  /\ [](\A i \in Issued :
          /\ ops[i].sent <= 1
          /\ (ops[i].pc = "returned" \/ StoreFailed(ops[i])) => ops[i].sent = 1)
  /\ [][ \A i \in Issued :
           ops[i].pc \in {"returned", "threw"} => ops'[i] = ops[i] ]_vars

\* One operation failed on the transport, another on a store-reported
\* failure, each after a single request.
C17_Witness ==
  /\ \E i \in Issued : /\ StoreFailed(ops[i])
                       /\ "Network Error" \in Pieces(ops[i].error)
                       /\ ops[i].sent = 1
  /\ \E i \in Issued : /\ StoreFailed(ops[i])
                       /\ "Bad filter" \in Pieces(ops[i].error)
                       /\ ops[i].sent = 1

\* C18: a handshake failure never goes unhandled, also when no operation is
\* waiting on it, and operations issued after the failure receive it.
C18_HandshakeFailureOnlySurfacesInOperations ==
  /\ ~unhandledRejection
  /\ \A i \in Issued :
       (ops[i].issuedIn = "failed" /\ ops[i].pc # "gate") =>
          ops[i].pc = "threw" /\ ops[i].failedAt = "validation"

----------------------------------------------------------------------------
(* Properties of the driver-backed client *)

\* C9: an operation invoked while the instance is not connected (no connect
\* has returned true since the last completed disconnect, or ever) fails
\* with the not-connected error and makes no call on the driver.
C9_NotConnectedOperationsFail ==
  (lastOp.kind # "none" /\ ~lastOp.inWindow) =>
     /\ lastOp.outcome = "threw"
     /\ lastOp.error = NotConnectedMessage
     /\ lastOp.driverCalls = 0

\* An operation was invoked while a connect was in flight or had failed: the
\* instance held a client, and no connect had returned.
C9_Witness ==
  /\ lastOp.kind \in DriverOpKinds
  /\ ~lastOp.inWindow
  /\ lastOp.calledIn = "connectCalled"
  /\ lastOp.holdingClient

\* C10: disconnect called on an instance on which connect was never called,
\* or called after a disconnect completed with no connect since, completes
\* at once without error, makes no call on the driver, and leaves client and
\* db unset as they were.
C10_DisconnectWithoutConnectionIsNoop ==
  /\ [](\A d \in 1..Len(disconnectCalls) :
          disconnectCalls[d].calledIn \in {"fresh", "disconnected"} =>
             /\ disconnectCalls[d].pc = "done"
             /\ disconnectCalls[d].driverCalls = 0
             /\ disconnectCalls[d].target = NoClient)
  /\ [][ (Len(disconnectCalls') = Len(disconnectCalls) + 1
            /\ lifecycle \in {"fresh", "disconnected"})
           => /\ client = NoClient
              /\ db = NoDb
              /\ UNCHANGED <<client, db, clients>> ]_vars

\* A connect returned, a disconnect closed the client, and disconnect was
\* called again on the disconnected instance.
C10_Witness ==
  /\ \E k \in 1..Len(connectCalls) : connectCalls[k].pc = "returned"
  /\ \E d \in 1..Len(disconnectCalls) :
       disconnectCalls[d].target # NoClient /\ disconnectCalls[d].pc = "done"
  /\ \E d \in 1..Len(disconnectCalls) : disconnectCalls[d].calledIn = "disconnected"

\* A driver client that was created and neither failed to connect nor was
\* handed to close()
LeftOpen(c) == clients[c].connect # "failed" /\ ~clients[c].closeRequested

\* C15: the instance owns a single connection: every driver client that
\* connect created is the client the instance holds or has been closed, and
\* once a disconnect has completed with no connect called since and none in
\* flight, no client created by the instance is left open.
C15_SingleConnectionOwned ==
  /\ \A c \in 1..Len(clients) : LeftOpen(c) => c = client
  /\ ( /\ lifecycle = "disconnected"
       /\ \A k \in 1..Len(connectCalls) : connectCalls[k].pc # "await" )
       => \A c \in 1..Len(clients) : ~LeftOpen(c)

\* connect returned twice and a disconnect then completed: the client of the
\* first connect is connected and was never closed.
C15_LeakAfterDisconnect ==
  /\ lifecycle = "disconnected"
  /\ \A k \in 1..Len(connectCalls) : connectCalls[k].pc = "returned"
  /\ \E c \in 1..Len(clients) : clients[c].connect = "ok" /\ LeftOpen(c)

\* C16: an operation invoked after a disconnect has begun closing the client
\* and before that disconnect has completed fails with the not-connected
\* error and is not dispatched on the client that is being closed.
C16_OperationDuringDisconnectFails ==
  (lastOp.kind \in DriverOpKinds /\ lastOp.duringDisconnect) =>
     /\ lastOp.outcome = "threw"
     /\ lastOp.error = NotConnectedMessage
     /\ lastOp.driverCalls = 0
     /\ ~lastOp.closing

\* connect returned, disconnect is awaiting close(), and an operation called
\* now was dispatched on the client that is being closed.
C16_DispatchedOnClosingClient ==
  /\ lastOp.duringDisconnect
  /\ lastOp.inWindow
  /\ lastOp.outcome = "dispatched"
  /\ lastOp.closing
  /\ lastOp.onClient = client

\* C19: if connect fails on an instance that is not connected, it rejects
\* with 'Failed to connect to MongoDB: ' followed by the driver's reason; db
\* remains unset, so every operation called from then on, while no connect
\* has succeeded, fails with the not-connected error without a driver call;
\* and no disconnect ends with an error.
C19_FailedConnectLeavesNotConnected ==
  /\ [](\A k \in 1..Len(connectCalls) :
          DriverRejected(k) =>
            \E reason \in DriverReasons :
              connectCalls[k].error = <<"Failed to connect to MongoDB: ", reason>>)
  /\ [][ \A k \in 1..Len(connectCalls') :
           ( /\ DriverRejected(k)'
             /\ ~(k <= Len(connectCalls) /\ connectCalls[k].pc = "threw")
             /\ ~connectedWindow )
             => (db' = NoDb /\ ~connectedWindow') ]_vars
  /\ []((lastOp.kind \in DriverOpKinds /\ lastOp.afterConnectFailure
            /\ ~lastOp.inWindow) =>
           /\ lastOp.outcome = "threw"
           /\ lastOp.error = NotConnectedMessage
           /\ lastOp.driverCalls = 0)
  /\ [](\A d \in 1..Len(disconnectCalls) : disconnectCalls[d].pc # "threw")

\* The only connect was rejected by the driver, an operation called after
\* that failed with the not-connected error, and a disconnect closed the
\* client that failed to connect and completed.
C19_Witness ==
  /\ Len(connectCalls) = 1
  /\ DriverRejected(1)
  /\ connectCalls[1].error = <<"Failed to connect to MongoDB: ", "ECONNREFUSED">>
  /\ lastOp.afterConnectFailure
  /\ lastOp.calledIn = "connectCalled"
  /\ lastOp.outcome = "threw"
  /\ lastOp.error = NotConnectedMessage
  /\ \E d \in 1..Len(disconnectCalls) :
       /\ disconnectCalls[d].target = connectCalls[1].client
       /\ disconnectCalls[d].target # NoClient
       /\ disconnectCalls[d].pc = "done"
  /\ db = NoDb

\* C20: db is set only if client is set.
C20_DbOnlyWithClient == db # NoDb => client # NoClient

\* A connect returned on an instance that an earlier disconnect had closed:
\* db is set again and so is client.
C20_Witness ==
  /\ db # NoDb
  /\ client # NoClient
  /\ \E d \in 1..Len(disconnectCalls) :
       disconnectCalls[d].target # NoClient /\ disconnectCalls[d].pc = "done"

----------------------------------------------------------------------------
(* Properties of both clients *)

\* A success answer of the store to an HTTP update or delete that matched
\* no record
ZeroMatchAnswered(o) ==
  /\ o.kind \in {"update", "delete"}
  /\ o.response.settle = "resolve"
  /\ o.response.success
  /\ o.response.count = 0

ZeroCounts(kind) ==
  IF kind = "update" THEN [matchedCount |-> 0, modifiedCount |-> 0]
                     ELSE [deletedCount |-> 0]

\* C14: on a validated (HTTP) or connected (driver) client, an update or
\* delete whose filter matches zero records returns zero counts
\* (matchedCount 0 and modifiedCount 0, or deletedCount 0) and never an
\* error; every repetition of the call returns the same zero counts.
C14_ZeroMatchReturnsZeroCounts ==
  /\ \A i \in 1..Len(ops) :
       ZeroMatchAnswered(ops[i]) =>
         /\ ops[i].sentIn = "validated"
         /\ ops[i].pc = "returned"
         /\ ops[i].error = NoError
         /\ ops[i].value = ZeroCounts(ops[i].kind)
  /\ (lastOp.kind \in UpdateOps \cup DeleteOps /\ lastOp.matched = <<0>>) =>
       /\ lastOp.inWindow
       /\ lastOp.outcome = "returned"
       /\ lastOp.error = << >>
       /\ IF lastOp.kind \in UpdateOps
            THEN lastOp.value = [matchedCount |-> 0, modifiedCount |-> 0]
            ELSE lastOp.value = 0

\* The same zero-match update was made twice on a validated client and both
\* calls returned the zero counts.
C14_Witness ==
  /\ Len(ops) = 2
  /\ \A i \in 1..2 :
       /\ ops[i].kind = "update"
       /\ ZeroMatchAnswered(ops[i])
       /\ ops[i].pc = "returned"
       /\ ops[i].value = [matchedCount |-> 0, modifiedCount |-> 0]

\* A zero-match delete returned 0 on a connected driver-backed client.
C14_DriverWitness ==
  /\ lastOp.kind = "delete"
  /\ lastOp.matched = <<0>>
  /\ lastOp.outcome = "returned"
  /\ lastOp.value = 0

----------------------------------------------------------------------------
(* Properties of the connection string *)

\* The database name a connection string written from the parts p names, or
\* the default when it names none
NamedDatabase(p) ==
  IF p.path.database = << >> THEN DefaultDatabase ELSE p.path.database

\* C21: extractDatabaseName returns the database segment of
\* mongodb://[username:password@]host[:port]/database[?options], returns the
\* default 'test' for every connection string that names no database, and
\* never returns the host or port part.
C21_DatabaseSegmentOrDefault ==
  dbName.called =>
    /\ dbName.value = NamedDatabase(givenUri)
    /\ dbName.value # givenUri.host
    /\ dbName.value # givenUri.host \o givenUri.port

\* The database name was extracted from mongodb://h:27 style input with no
\* path segment and no options, and it is the host and port.
C21_HostReturned ==
  /\ dbName.called
  /\ givenUri.credentials = << >>
  /\ ~givenUri.path.slash
  /\ givenUri.options = << >>
  /\ givenUri.port # << >>
  /\ dbName.value = givenUri.host \o givenUri.port

\* Where the connection string names a database the function returns it.
C21_NamedDatabaseReturned ==
  (dbName.called /\ givenUri.path.database # << >>) =>
     dbName.value = givenUri.path.database

====
